---- MODULE Spec2Model ----
(***************************************************************************)
(* serde_versioned: the `#[derive(Versioned)]` generator                   *)
(* (serde_versioned_derive/src/lib.rs), the code it expands to, and the    *)
(* format adapter that drives the expansion at run time.                   *)
(*                                                                         *)
(* A behaviour is one build followed by one call: the derive input is      *)
(* fixed in the initial state, DeriveVersioned runs the macro on it, and,  *)
(* when the expansion compiles against the fixtures of tests/test.rs, one  *)
(* of the generated methods or of the adapter's functions is called with   *)
(* arguments drawn from small sets.  The calls are pure functions of the   *)
(* expansion and their arguments, so a second call adds no state.          *)
(***************************************************************************)
EXTENDS Integers, Sequences, FiniteSets

VARIABLES input, pc, output, op, arg, result, trace

vars == <<input, pc, output, op, arg, result, trace>>

(***************************************************************************)
(* Bounds                                                                  *)
(***************************************************************************)
\* Longest `versions = [...]` list drawn for a well-formed attribute.
MaxElems == 3

SeqsUpTo(S, n) == UNION {[1..k -> S] : k \in 0..n}

(***************************************************************************)
(* (idx + 1).to_string(): decimal rendering of a natural number.           *)
(***************************************************************************)
Digits == <<"0", "1", "2", "3", "4", "5", "6", "7", "8", "9">>

RECURSIVE to_string(_)
to_string(n) ==
    IF n < 10 THEN Digits[n + 1]
    ELSE to_string(n \div 10) \o Digits[(n % 10) + 1]

(***************************************************************************)
(* Fixtures of tests/test.rs: the current type User and the historical     *)
(* types UserV1 and UserV2 with their FromVersion<User> edges.             *)
(***************************************************************************)
StructFields(struct) ==
    CASE struct = "UserV1" -> {"name"}
      [] struct = "UserV2" -> {"name", "age"}
      [] struct = "User"   -> {"name", "age"}

\* impl FromVersion<User> for UserV1 / UserV2
convert(struct, v) ==
    CASE struct = "UserV1" -> [name |-> v.name, age |-> 0]
      [] struct = "UserV2" -> [name |-> v.name, age |-> v.age]

Names == {"Eve", "David"}
Ages == {0, 35}

\* The values of a struct type: one value per field.
FieldValues(f) == IF f = "age" THEN Ages ELSE Names

\* m with key k set to v.
Extend(m, k, v) == [x \in DOMAIN m \cup {k} |-> IF x = k THEN v ELSE m[x]]

\* The maps of S, each also extended by key k with every value of V.
WithKey(S, k, V) == S \cup {Extend(m, k, v) : m \in S, v \in V}

Payloads(struct) ==
    LET named == {[name |-> n] : n \in Names}
    IN IF "age" \in StructFields(struct)
       THEN {Extend(m, "age", a) : m \in named, a \in Ages}
       ELSE named

(***************************************************************************)
(* The derive input: DeriveInput { attrs, ident, data }.                   *)
(* A token is an identifier, a punctuation mark or a delimited group; the  *)
(* content of a group is what Punctuated::<Expr, Token![,]>::              *)
(* parse_terminated makes of it: the expressions, or a failure.            *)
(***************************************************************************)
Ident(s) == [t |-> "ident", s |-> s]
Punct(s) == [t |-> "punct", s |-> s]
Group(delim, terminated, elems) ==
    [t |-> "group", s |-> delim, terminated |-> terminated, elems |-> elems]

\* Expressions of a list: a path (one segment: a bare identifier) or a literal.
PathExpr(segments) == [kind |-> "Path", segments |-> segments]
LitExpr == [kind |-> "Lit", segments |-> <<>>]

Exprs ==
    {PathExpr(<<"UserV1">>), PathExpr(<<"UserV2">>),
     PathExpr(<<"old", "UserV1">>), LitExpr}

Attr(path, meta, tokens) == [path |-> path, meta |-> meta, tokens |-> tokens]

\* #[versioned(versions = [e1, ..., en])]
ListAttr(elems) ==
    Attr("versioned", "List",
         <<Ident("versions"), Punct("="), Group("bracket", TRUE, elems)>>)

BothV == <<PathExpr(<<"UserV1">>), PathExpr(<<"UserV2">>)>>

ListAttrs == {ListAttr(e) : e \in SeqsUpTo(Exprs, MaxElems)}

\* Attributes off the grammar versioned(versions = [Ident, Ident, ...]).
OffGrammarAttrs ==
    {Attr("versioned", "List",
          <<Ident("version"), Punct("="), Group("bracket", TRUE, BothV)>>),
     Attr("versioned", "List",
          <<Ident("versions"), Group("bracket", TRUE, BothV)>>),
     Attr("versioned", "List", <<Ident("versions"), Punct("=")>>),
     Attr("versioned", "List",
          <<Ident("versions"), Punct("="), Ident("UserV1")>>),
     Attr("versioned", "List",
          <<Ident("versions"), Punct("="), Group("paren", TRUE, BothV)>>),
     Attr("versioned", "List",
          <<Ident("versions"), Punct("="), Group("bracket", TRUE, BothV),
            Ident("extra")>>),
     Attr("versioned", "List",
          <<Ident("versions"), Punct("="), Group("bracket", FALSE, <<>>)>>),
     Attr("versioned", "List", <<Punct("="), Group("bracket", TRUE, BothV)>>),
     Attr("versioned", "List", <<>>),
     Attr("versioned", "Path", <<>>),
     Attr("versioned", "NameValue", <<>>)}

\* Another attribute on the item, e.g. #[serde(...)].
OtherAttrs == {Attr("serde", "List", <<Ident("rename_all")>>)}

AllAttrs == ListAttrs \cup OffGrammarAttrs \cup OtherAttrs

CompanionAttrs ==
    OffGrammarAttrs \cup OtherAttrs
        \cup {ListAttr(<<>>), ListAttr(<<PathExpr(<<"UserV1">>)>>), ListAttr(BothV)}

AttrLists ==
    {<<>>} \cup {<<a>> : a \in AllAttrs}
        \cup {<<a, b>> : a \in CompanionAttrs, b \in AllAttrs}
        \cup {<<a, b>> : a \in AllAttrs, b \in CompanionAttrs}

\* syn::Data: Struct with Fields::Named / Unnamed / Unit, Enum, Union.
DataShapes ==
    {[kind |-> "Struct", fields |-> "Named", named |-> <<"name", "age">>],
     [kind |-> "Struct", fields |-> "Named", named |-> <<"name">>],
     [kind |-> "Struct", fields |-> "Named", named |-> <<>>],
     [kind |-> "Struct", fields |-> "Unnamed", named |-> <<>>],
     [kind |-> "Struct", fields |-> "Unit", named |-> <<>>],
     [kind |-> "Enum", fields |-> "None", named |-> <<>>],
     [kind |-> "Union", fields |-> "None", named |-> <<>>]}

DeriveInputs ==
    {[ident |-> "User", attrs |-> a, data |-> d] :
        a \in AttrLists, d \in DataShapes}

(***************************************************************************)
(* VersionsList::parse and extract_versions                                *)
(***************************************************************************)
\* path.path.get_ident(): Some for a one-segment path.
get_ident(elem) ==
    IF elem.kind = "Path" /\ Len(elem.segments) = 1
    THEN <<elem.segments[1]>> ELSE <<>>

\* version_num of the element at 0-based index idx.
version_num(idx) == to_string(idx + 1)

\* for (idx, elem) in elems.iter().enumerate() { if let ... { versions.push } }
RECURSIVE collect_versions(_, _)
collect_versions(elems, n) ==
    IF n = 0 THEN <<>>
    ELSE LET rest == collect_versions(elems, n - 1)
             id == get_ident(elems[n])
         IN IF id # <<>>
            THEN Append(rest, [num |-> version_num(n - 1), struct |-> id[1]])
            ELSE rest

ParseErr == [ok |-> FALSE, versions |-> <<>>]

\* syn::parse2::<VersionsList>(tokens): Parse::parse, then no token may be left.
VersionsList_parse(tokens) ==
    IF Len(tokens) < 1 \/ tokens[1].t # "ident" THEN ParseErr
    ELSE IF tokens[1].s # "versions" THEN ParseErr
    ELSE IF Len(tokens) < 2 \/ tokens[2] # Punct("=") THEN ParseErr
    ELSE IF Len(tokens) < 3 \/ tokens[3].t # "group" \/ tokens[3].s # "bracket"
    THEN ParseErr
    ELSE IF ~tokens[3].terminated THEN ParseErr
    ELSE IF Len(tokens) > 3 THEN ParseErr
    ELSE [ok |-> TRUE,
          versions |-> collect_versions(tokens[3].elems, Len(tokens[3].elems))]

\* The loop of extract_versions over the first n attributes.
RECURSIVE extract_versions_upto(_, _)
extract_versions_upto(attrs, n) ==
    IF n = 0 THEN <<>>
    ELSE LET versions == extract_versions_upto(attrs, n - 1)
             attr == attrs[n]
         IN IF attr.path = "versioned" /\ attr.meta = "List"
            THEN LET parsed == VersionsList_parse(attr.tokens)
                 IN IF parsed.ok THEN parsed.versions ELSE versions
            ELSE versions

extract_versions(in) == extract_versions_upto(in.attrs, Len(in.attrs))

(***************************************************************************)
(* derive_versioned                                                        *)
(***************************************************************************)
CompileError(message) ==
    [kind |-> "error", message |-> message, enum_name |-> "",
     version_variants |-> <<>>, from_version_match_arms |-> <<>>,
     extract_version_match_arms |-> <<>>,
     to_version_impl |-> [ident |-> "", struct |-> "", fields |-> <<>>]]

\* versions.last().unwrap() on an empty list.
Panic == [CompileError("unwrap on None") EXCEPT !.kind = "panic"]

\* format!("Version{version_num}")
version_ident(pair) == "Version" \o pair.num

\* A generator that renames every variant to the first version's number.
version_variants_first_num(versions) ==
    [i \in 1..Len(versions) |->
        [rename |-> versions[1].num, ident |-> version_ident(versions[i]),
         struct |-> versions[i].struct]]

\* #[serde(rename = #version_num)] #version_ident(#version_struct)
version_variants(versions) ==
    [i \in 1..Len(versions) |->
        [rename |-> versions[i].num, ident |-> version_ident(versions[i]),
         struct |-> versions[i].struct]]

\* #version_enum_name::#version_ident(v) => Ok(FromVersion::convert(v))
from_version_match_arms(versions) ==
    [i \in 1..Len(versions) |->
        [ident |-> version_ident(versions[i]), struct |-> versions[i].struct]]

\* A generator whose every arm returns the latest version's number.
extract_version_match_arms_latest(versions) ==
    [i \in 1..Len(versions) |->
        [ident |-> version_ident(versions[i]),
         lit |-> versions[Len(versions)].num]]

\* #version_enum_name::#version_ident(_) => #version_num_lit.to_string()
extract_version_match_arms(versions) ==
    [i \in 1..Len(versions) |->
        [ident |-> version_ident(versions[i]), lit |-> versions[i].num]]

\* A generator whose emptiness check never fires.
versions_is_empty_never(versions) == FALSE

versions_is_empty(versions) == versions = <<>>

\* versions.last(): None (<<>>) on an empty list.
last(versions) == IF Len(versions) = 0 THEN <<>> ELSE <<versions[Len(versions)]>>

derive_versioned(in) ==
    LET versions == extract_versions(in)
        data == in.data
    IN IF versions_is_empty(versions)
       THEN CompileError("No version structs specified")
       ELSE IF last(versions) = <<>> THEN Panic
       ELSE IF data.kind = "Struct" /\ data.fields = "Unnamed"
       THEN CompileError("only supports structs with named fields")
       ELSE IF data.kind = "Struct" /\ data.fields = "Unit"
       THEN CompileError("does not support unit structs")
       ELSE IF ~(data.kind = "Struct" /\ data.fields = "Named")
       THEN CompileError("only supports structs, not enums or unions")
       ELSE [kind |-> "expanded", message |-> "",
             enum_name |-> in.ident \o "Version",
             version_variants |-> version_variants(versions),
             from_version_match_arms |-> from_version_match_arms(versions),
             extract_version_match_arms |-> extract_version_match_arms(versions),
             to_version_impl |->
                 [ident |-> version_ident(last(versions)[1]),
                  struct |-> last(versions)[1].struct,
                  fields |-> data.named]]

(***************************************************************************)
(* The expansion at run time: impl Versioned for User.                     *)
(***************************************************************************)
Range(seq) == {seq[i] : i \in 1..Len(seq)}

\* The expansion compiles against the fixtures: the struct literal of
\* to_version names exactly the fields of the latest struct, and every
\* variant's struct has a FromVersion<User> edge.
Compiles(exp, in) ==
    /\ exp.kind = "expanded"
    /\ in.ident = "User"
    /\ Range(in.data.named) = StructFields("User")
    /\ Range(exp.to_version_impl.fields) = StructFields(exp.to_version_impl.struct)

\* The first arm (or variant) of seq whose field `key` is x; 0 when none.
FirstMatch(seq, key, x) ==
    IF \E i \in 1..Len(seq) : seq[i][key] = x
    THEN CHOOSE i \in 1..Len(seq) :
            /\ seq[i][key] = x
            /\ \A j \in 1..(i - 1) : seq[j][key] # x
    ELSE 0

\* The values of the generated enum.
UnionValues(exp) ==
    UNION {{[variant |-> exp.version_variants[i].ident, payload |-> p] :
               p \in Payloads(exp.version_variants[i].struct)} :
           i \in 1..Len(exp.version_variants)}

Ok(v) == [ok |-> TRUE, value |-> v, err |-> [kind |-> "none"]]
Err(e) == [ok |-> FALSE, value |-> <<>>, err |-> e]

\* An expansion that wraps the copy in the first variant instead of the latest.
to_version_first_variant(exp, self) ==
    [variant |-> exp.version_variants[1].ident,
     payload |-> [f \in Range(exp.to_version_impl.fields) |-> self[f]]]

\* fn to_version(&self): Enum::Latest(LatestStruct { f: self.f.clone(), .. })
to_version(exp, self) ==
    [variant |-> exp.to_version_impl.ident,
     payload |-> [f \in Range(exp.to_version_impl.fields) |-> self[f]]]

\* An expansion with an arm for the latest variant only and a default arm that
\* reports every other variant as a conversion failure.
from_version_default_arm(exp, version) ==
    IF version.variant = exp.to_version_impl.ident
    THEN [res |-> Ok(convert(exp.to_version_impl.struct, version.payload)),
          calls |-> <<"from_version", "convert:" \o exp.to_version_impl.struct>>]
    ELSE [res |-> Err("VersionConversionError"), calls |-> <<"from_version">>]

\* fn from_version(version): match version { Enum::VersionK(v) => Ok(convert(v)) }
from_version(exp, version) ==
    LET arm == exp.from_version_match_arms[
                   FirstMatch(exp.from_version_match_arms, "ident", version.variant)]
    IN [res |-> Ok(convert(arm.struct, version.payload)),
        calls |-> <<"from_version", "convert:" \o arm.struct>>]

\* fn extract_version_string(version): match version { Enum::VersionK(_) => "k" }
extract_version_string(exp, version) ==
    exp.extract_version_match_arms[
        FirstMatch(exp.extract_version_match_arms, "ident", version.variant)].lit

(***************************************************************************)
(* The wire shape of the generated enum, #[serde(tag = "version")] with    *)
(* #[serde(rename = "k")] per variant: a map holding "version" and the     *)
(* fields of the variant's struct beside it.                               *)
(***************************************************************************)
Text(syntax, map) == [syntax |-> syntax, map |-> map]

Serialize(exp, version) ==
    LET var == exp.version_variants[
                   FirstMatch(exp.version_variants, "ident", version.variant)]
    IN Text("ok",
            [k \in {"version"} \cup DOMAIN version.payload |->
                IF k = "version" THEN var.rename ELSE version.payload[k]])

\* A union that decodes an unknown tag as its last variant.
Deserialize_other(exp, text) ==
    IF text.syntax # "ok" THEN Err("syntax error")
    ELSE IF "version" \notin DOMAIN text.map THEN Err("missing field version")
    ELSE LET i == FirstMatch(exp.version_variants, "rename", text.map["version"])
             var == exp.version_variants[IF i = 0 THEN Len(exp.version_variants)
                                         ELSE i]
         IN IF ~(StructFields(var.struct) \subseteq DOMAIN text.map)
            THEN Err("missing field")
            ELSE Ok([variant |-> var.ident,
                     payload |-> [f \in StructFields(var.struct) |-> text.map[f]]])

Deserialize(exp, text) ==
    IF text.syntax # "ok" THEN Err("syntax error")
    ELSE IF "version" \notin DOMAIN text.map THEN Err("missing field version")
    ELSE LET i == FirstMatch(exp.version_variants, "rename", text.map["version"])
         IN IF i = 0 THEN Err("unknown variant")
            ELSE LET var == exp.version_variants[i]
                 IN IF ~(StructFields(var.struct) \subseteq DOMAIN text.map)
                    THEN Err("missing field")
                    ELSE Ok([variant |-> var.ident,
                             payload |-> [f \in StructFields(var.struct) |->
                                             text.map[f]]])

\* The codec functions a caller passes in.
EncodeFns == {"serde", "failing"}

encode_fn(name, exp, version) ==
    IF name = "serde" THEN Ok(Serialize(exp, version)) ELSE Err("encode failed")

decode_fn(exp, text) == Deserialize(exp, text)

\* Inputs to decode: tagged and untagged maps over the fixture fields, and
\* a text that is not syntactically valid.
Tags == {to_string(i) : i \in 1..(MaxElems + 1)} \cup {"99", "Version1"}

Texts ==
    LET tagged == {[version |-> t] : t \in Tags}
        named == {[name |-> n] : n \in Names}
        aged == {[age |-> a] : a \in Ages}
        maps == WithKey(WithKey(tagged, "name", Names), "age", Ages)
                    \cup WithKey(named, "age", Ages) \cup aged
    IN {Text("invalid", <<>>)} \cup {Text("ok", m) : m \in maps}

(***************************************************************************)
(* The format adapter and its error type (FormatError).                    *)
(***************************************************************************)
FormatError(kind, raw) == [kind |-> kind, input |-> raw]

is_deserialize(e) == e.kind = "Deserialize"
is_version_conversion(e) == e.kind = "VersionConversion"

\* to_format(&self, encode_fn)
to_format(exp, self, enc) ==
    LET r == encode_fn(enc, exp, to_version(exp, self))
    IN IF r.ok THEN Ok(r.value) ELSE Err(FormatError("Serialize", <<>>))

\* An adapter that reports a decode failure as a conversion failure.
from_format_conflated(exp, text) ==
    LET d == decode_fn(exp, text)
    IN IF ~d.ok
       THEN [res |-> Err(FormatError("VersionConversion", <<text>>)),
             calls |-> <<"decode">>]
       ELSE LET c == from_version(exp, d.value)
            IN [res |-> IF c.res.ok THEN c.res
                        ELSE Err(FormatError("VersionConversion", <<>>)),
                calls |-> <<"decode">> \o c.calls]

\* from_format(input, decode_fn)
from_format(exp, text) ==
    LET d == decode_fn(exp, text)
    IN IF ~d.ok
       THEN [res |-> Err(FormatError("Deserialize", <<text>>)),
             calls |-> <<"decode">>]
       ELSE LET c == from_version(exp, d.value)
            IN [res |-> IF c.res.ok THEN c.res
                        ELSE Err(FormatError("VersionConversion", <<>>)),
                calls |-> <<"decode">> \o c.calls]

(***************************************************************************)
(* The state machine                                                       *)
(***************************************************************************)
NoOutput == CompileError("")

Init ==
    /\ input \in DeriveInputs
    /\ pc = "input"
    /\ output = NoOutput
    /\ op = "none"
    /\ arg = <<>>
    /\ result = <<>>
    /\ trace = <<>>

DeriveVersioned ==
    /\ pc = "input"
    /\ output' = derive_versioned(input)
    /\ pc' = "built"
    /\ UNCHANGED <<input, op, arg, result, trace>>

Callable == pc = "built" /\ Compiles(output, input)

ToVersion ==
    /\ Callable
    /\ \E v \in Payloads("User") :
        /\ op' = "to_version"
        /\ arg' = v
        /\ result' = to_version(output, v)
        /\ trace' = <<"to_version">>
    /\ pc' = "called"
    /\ UNCHANGED <<input, output>>

FromVersion ==
    /\ Callable
    /\ \E u \in UnionValues(output) :
        /\ op' = "from_version"
        /\ arg' = u
        /\ result' = from_version(output, u).res
        /\ trace' = from_version(output, u).calls
    /\ pc' = "called"
    /\ UNCHANGED <<input, output>>

ExtractVersionString ==
    /\ Callable
    /\ \E u \in UnionValues(output) :
        /\ op' = "extract_version_string"
        /\ arg' = u
        /\ result' = extract_version_string(output, u)
        /\ trace' = <<"extract_version_string">>
    /\ pc' = "called"
    /\ UNCHANGED <<input, output>>

ToFormat ==
    /\ Callable
    /\ \E v \in Payloads("User"), enc \in EncodeFns :
        /\ op' = "to_format"
        /\ arg' = [value |-> v, encode_fn |-> enc]
        /\ result' = to_format(output, v, enc)
        /\ trace' = <<"to_version", "encode">>
    /\ pc' = "called"
    /\ UNCHANGED <<input, output>>

FromFormat ==
    /\ Callable
    /\ \E text \in Texts :
        /\ op' = "from_format"
        /\ arg' = text
        /\ result' = from_format(output, text).res
        /\ trace' = from_format(output, text).calls
    /\ pc' = "called"
    /\ UNCHANGED <<input, output>>

Next ==
    \/ DeriveVersioned
    \/ ToVersion
    \/ FromVersion
    \/ ExtractVersionString
    \/ ToFormat
    \/ FromFormat

Spec == Init /\ [][Next]_vars
(***************************************************************************)
(* What the declaration says, read off the input alone                     *)
(***************************************************************************)
IsBareIdent(e) == e.kind = "Path" /\ Len(e.segments) = 1

\* versioned(versions = [Ident, Ident, ...])
MatchesGrammar(attr) ==
    /\ attr.meta = "List"
    /\ Len(attr.tokens) = 3
    /\ attr.tokens[1] = Ident("versions")
    /\ attr.tokens[2] = Punct("=")
    /\ attr.tokens[3].t = "group"
    /\ attr.tokens[3].s = "bracket"
    /\ attr.tokens[3].terminated
    /\ \A i \in 1..Len(attr.tokens[3].elems) : IsBareIdent(attr.tokens[3].elems[i])

\* The list the generator reads past the key, `=` and brackets.
ReadsList(attr) ==
    /\ attr.path = "versioned"
    /\ attr.meta = "List"
    /\ Len(attr.tokens) = 3
    /\ attr.tokens[1] = Ident("versions")
    /\ attr.tokens[2] = Punct("=")
    /\ attr.tokens[3].t = "group"
    /\ attr.tokens[3].s = "bracket"
    /\ attr.tokens[3].terminated

\* The entries e1, ..., en of the declaration in force: those of the last
\* attribute whose list is read.
DeclaredElems ==
    LET idx == {i \in 1..Len(input.attrs) : ReadsList(input.attrs[i])}
    IN IF idx = {} THEN <<>>
       ELSE input.attrs[CHOOSE i \in idx : \A j \in idx : j <= i].tokens[3].elems

DeclaredCount == Len(DeclaredElems)

\* The slot index k of the variant named Version<k>; 0 when there is none.
SlotOf(variant) ==
    IF \E k \in 1..DeclaredCount : "Version" \o to_string(k) = variant
    THEN CHOOSE k \in 1..DeclaredCount : "Version" \o to_string(k) = variant
    ELSE 0

Built == pc # "input"
Called(name) == pc = "called" /\ op = name

(***************************************************************************)
(* C1  Version round-trip: with the latest slot's edge the field-for-field *)
(* copy (UserV2), from_version(to_version(v)) is Ok(v) for every current   *)
(* value v.                                                                *)
(***************************************************************************)
C1_VersionRoundTrip ==
    Called("to_version") => from_version(output, result).res = Ok(arg)

C1_Witness ==
    /\ Called("to_version")
    /\ arg = [name |-> "David", age |-> 35]
    /\ Len(output.version_variants) >= 2
    /\ output.version_variants[1].struct = "UserV1"

(***************************************************************************)
(* C2  Format round-trip: with a codec whose decode inverts its encode on  *)
(* every union value, from_format(to_format(v, encode), decode) succeeds   *)
(* and returns v.                                                          *)
(***************************************************************************)
C2_FormatRoundTrip ==
    (Called("to_format") /\ arg.encode_fn = "serde") =>
        /\ result.ok
        /\ from_format(output, result.value).res = Ok(arg.value)

C2_Witness ==
    /\ Called("to_format")
    /\ arg.encode_fn = "serde"
    /\ arg.value = [name |-> "David", age |-> 35]
    /\ result.ok
    /\ Len(output.version_variants) >= 2
    /\ output.version_variants[1].struct = "UserV1"

(***************************************************************************)
(* C3  Tag fidelity: for a declaration of N >= 1 entries, to_version       *)
(* yields the variant of the final declared entry and the encoded          *)
(* "version" is the string of N, whatever the field values.                *)
(***************************************************************************)
C3_TagFidelity ==
    Called("to_version") =>
        /\ DeclaredCount >= 1
        /\ result.variant = "Version" \o to_string(DeclaredCount)
        /\ IsBareIdent(DeclaredElems[DeclaredCount])
        /\ output.to_version_impl.struct = DeclaredElems[DeclaredCount].segments[1]
        /\ Serialize(output, result).map["version"] = to_string(DeclaredCount)

(***************************************************************************)
(* C4  Slot numbering: the generated variants carry the indices 1, 2, ..., *)
(* k in declaration order, without gaps or duplicates: the i-th variant is *)
(* tagged with the string of i.                                            *)
(***************************************************************************)
C4_SlotNumbering ==
    (Built /\ output.kind = "expanded") =>
        \A i \in 1..Len(output.version_variants) :
            /\ output.version_variants[i].rename = to_string(i)
            /\ output.version_variants[i].ident = "Version" \o to_string(i)

(***************************************************************************)
(* C5  Unknown tag rejection: an input whose "version" is not one of the   *)
(* declared slot indices 1..N fails at the decode step: from_format        *)
(* returns a deserialize error, not a conversion error, and from_version   *)
(* and the migration edges are not called.                                 *)
(***************************************************************************)
C5_UnknownTagRejected ==
    (/\ Called("from_format")
     /\ arg.syntax = "ok"
     /\ "version" \in DOMAIN arg.map
     /\ arg.map["version"] \notin {to_string(k) : k \in 1..DeclaredCount}) =>
        /\ ~result.ok
        /\ is_deserialize(result.err)
        /\ ~is_version_conversion(result.err)
        /\ trace = <<"decode">>

C5_Witness ==
    /\ Called("from_format")
    /\ arg = Text("ok", [version |-> "99", name |-> "Eve", age |-> 35])
    /\ ~result.ok

C7_SlotCorrectDispatch ==
    /\ Called("from_version") =>
          LET k == SlotOf(arg.variant)
          IN /\ k >= 1
             /\ IsBareIdent(DeclaredElems[k])
             /\ result = Ok(convert(DeclaredElems[k].segments[1], arg.payload))
             /\ trace = <<"from_version",
                          "convert:" \o DeclaredElems[k].segments[1]>>
    /\ (/\ Called("from_format")
        /\ arg = Text("ok", [version |-> "1", name |-> "Eve"])
        /\ DeclaredCount >= 1
        /\ DeclaredElems[1] = PathExpr(<<"UserV1">>)) =>
          result = Ok([name |-> "Eve", age |-> 0])

C7_Witness ==
    /\ Called("from_version")
    /\ arg = [variant |-> "Version1", payload |-> [name |-> "Eve"]]
    /\ Len(output.version_variants) >= 2
    /\ result = Ok([name |-> "Eve", age |-> 0])

(***************************************************************************)
(* C8  Malformed declarations fail loudly: when the input carries a        *)
(* `versioned` attribute off the grammar                                   *)
(* versioned(versions = [Ident, Ident, ...]), generation returns a build   *)
(* error and emits nothing.                                                *)
(***************************************************************************)
C8_MalformedFailsLoudly ==
    (/\ Built
     /\ \E i \in 1..Len(input.attrs) :
           /\ input.attrs[i].path = "versioned"
           /\ ~MatchesGrammar(input.attrs[i])) =>
        /\ output.kind = "error"
        /\ output.version_variants = <<>>

C10_TargetShape ==
    (/\ Built
     /\ ~(/\ input.data.kind = "Struct"
          /\ input.data.fields = "Named"
          /\ Len(input.data.named) >= 1)) =>
        /\ output.kind = "error"
        /\ output.to_version_impl.ident = ""
\* The index of the latest slot: the position in the declared list of the
\* last entry that is a bare identifier; 0 when there is none.
LatestSlotIndex ==
    LET idx == {i \in 1..DeclaredCount : IsBareIdent(DeclaredElems[i])}
    IN IF idx = {} THEN 0 ELSE CHOOSE i \in idx : \A j \in idx : j <= i

====
